---- MODULE Spec2Model ----
(***************************************************************************)
(* A model of the whatsapp-vcf-bot (src/index.js): the messages.upsert     *)
(* handler, the contact-line parser, the vCard encoder, the contact-card   *)
(* phone extraction and the connection.update restart loop.                *)
(*                                                                         *)
(* A JavaScript string is a sequence of one-character strings, so that     *)
(* trimming, splitting, replacing and matching are computed character by   *)
(* character as the code computes them.                                    *)
(***************************************************************************)
EXTENDS Integers, Sequences, FiniteSets, TLC

VARIABLES
    inv,        \* the invocations of the messages.upsert handler, in arrival order
    files,      \* the tmp directory: set of [path, content], one per path
    timers,     \* pending setTimeout cleanups: set of [owner, path]
    now,        \* Date.now()
    encPc,      \* position of the parse/encode pipeline run on one line
    encLine,    \* the input line of that run
    encRec,     \* the record parseContactLine returned (or Null)
    encOut,     \* the text buildVCardSingle returned
    encFields,  \* the fields the input line was written from (history)
    socks,      \* the sockets made by makeWASocket, in creation order
    starting,   \* number of start() calls still before makeWASocket
    starts,     \* number of start() calls made so far
    closes,     \* the 'close' events handled so far: sequence of [sock, code]
    process     \* "running", or "exited" after process.exit(1)

vars == <<inv, files, timers, now, encPc, encLine, encRec, encOut, encFields,
          socks, starting, starts, closes, process>>

handlerVars == <<inv, files, timers, now>>
encVars == <<encPc, encLine, encRec, encOut, encFields>>
connVars == <<socks, starting, starts, closes, process>>

\* null, comparable with records
Null == [null |-> TRUE]

-----------------------------------------------------------------------------
(* Bounds of the model *)

MaxFieldLen == 2    \* longest field of a generated contact line
MaxLines == 3       \* most lines after the "!vcf" prefix of an inbound text
MaxInFlight == 2    \* most handler invocations in the concurrent specification
MaxSocks == 4       \* most sockets created in the connection specification

-----------------------------------------------------------------------------
(* JavaScript string primitives *)

Min(S) == CHOOSE x \in S : \A y \in S : x <= y
Max(S) == CHOOSE x \in S : \A y \in S : x >= y

CR == "\r"
LF == "\n"
CRLF == <<CR, LF>>

Digits == {"0", "1", "2", "3", "4", "5", "6", "7", "8", "9"}

\* white space removed by String.prototype.trim, within the model's alphabet
WhiteSpace == {" ", "\t", CR, LF}

trim(s) ==
    LET keep == {i \in 1..Len(s) : s[i] \notin WhiteSpace}
    IN  IF keep = {} THEN <<>> ELSE SubSeq(s, Min(keep), Max(keep))

startsWith(s, p) == Len(s) >= Len(p) /\ SubSeq(s, 1, Len(p)) = p

\* s.slice(n)
slice(s, n) == SubSeq(s, n + 1, Len(s))

\* s.indexOf(p, from - 1) + 1: the first index >= from at which p occurs in s, or 0
indexOf(s, p, from) ==
    LET hits == {i \in from..(Len(s) - Len(p) + 1) : \A k \in 1..Len(p) : s[i + k - 1] = p[k]}
    IN  IF hits = {} THEN 0 ELSE Min(hits)

\* the elements of a set of numbers in increasing order
sorted(S) ==
    [k \in 1..Cardinality(S) |-> CHOOSE i \in S : Cardinality({j \in S : j < i}) = k - 1]

\* the pieces of s between separators of length w that start at the indices at
cutAt(s, at, w) ==
    LET pos == sorted(at)
        n == Len(pos)
    IN  [k \in 1..(n + 1) |->
            SubSeq(s, IF k = 1 THEN 1 ELSE pos[k - 1] + w,
                      IF k = n + 1 THEN Len(s) ELSE pos[k] - 1)]

upperChar(c) ==
    CASE c = "m" -> "M" [] c = "u" -> "U" [] c = "l" -> "L" [] c = "t" -> "T"
      [] c = "i" -> "I" [] c = "e" -> "E" [] c = "a" -> "A" [] c = "b" -> "B"
      [] c = "f" -> "F" [] c = "n" -> "N" [] c = "o" -> "O" [] c = "x" -> "X"
      [] OTHER -> c

toUpperCase(s) == [i \in 1..Len(s) |-> upperChar(s[i])]

\* s.split(c) for a one-character separator c
splitChar(s, c) == cutAt(s, {i \in 1..Len(s) : s[i] = c}, 1)

\* s.split(/\r?\n/): a CR right before the LF belongs to the separator
splitLines(s) ==
    LET raw == splitChar(s, LF)
        chop(p) == IF Len(p) > 0 /\ p[Len(p)] = CR THEN SubSeq(p, 1, Len(p) - 1) ELSE p
    IN  [i \in 1..Len(raw) |-> IF i < Len(raw) THEN chop(raw[i]) ELSE raw[i]]

\* parts.join(sep)
join(parts, sep) ==
    LET upTo[k \in 0..Len(parts)] ==
            IF k = 0 THEN <<>>
            ELSE IF k = 1 THEN parts[1]
            ELSE upTo[k - 1] \o sep \o parts[k]
    IN  upTo[Len(parts)]

\* x || d on strings: the empty string is falsy
orElse(x, d) == IF x = <<>> THEN d ELSE x

-----------------------------------------------------------------------------
(* parseContactLine, sanitizePhoneForVcard, buildVCardSingle, buildVCardMulti *)

Unknown == <<"U", "n", "k", "n", "o", "w", "n">>

\* a parser that reads the organization and the e-mail one field too far
parseContactLineShifted(line) ==
    LET raw == splitChar(line, "|")
        parts == [i \in 1..Len(raw) |-> trim(raw[i])]
        at(i) == IF i <= Len(parts) THEN parts[i] ELSE <<>>
    IN  IF Len(parts) < 2 THEN Null
        ELSE [name |-> orElse(at(1), Unknown), phone |-> at(2),
              org |-> at(4), email |-> at(5)]

parseContactLine(line) ==
    LET raw == splitChar(line, "|")
        parts == [i \in 1..Len(raw) |-> trim(raw[i])]
        at(i) == IF i <= Len(parts) THEN parts[i] ELSE <<>>
    IN  IF Len(parts) < 2 THEN Null
        ELSE [name |-> orElse(at(1), Unknown), phone |-> at(2),
              org |-> at(3), email |-> at(4)]

\* phone.replace(/[^\d+]/g, "")
RECURSIVE sanitizePhoneForVcard(_)
sanitizePhoneForVcard(phone) ==
    IF phone = <<>> THEN <<>>
    ELSE (IF Head(phone) \in Digits \cup {"+"} THEN <<Head(phone)>> ELSE <<>>)
         \o sanitizePhoneForVcard(Tail(phone))

\* name.replace(/,/g, "\\,")
RECURSIVE escapeName(_)
escapeName(name) ==
    IF name = <<>> THEN <<>>
    ELSE (IF Head(name) = "," THEN <<"\\", ",">> ELSE <<Head(name)>>)
         \o escapeName(Tail(name))

BEGIN_VCARD == <<"B", "E", "G", "I", "N", ":", "V", "C", "A", "R", "D">>
VERSION_30 == <<"V", "E", "R", "S", "I", "O", "N", ":", "3", ".", "0">>
FN_ == <<"F", "N", ":">>
N_ == <<"N", ":">>
N_TAIL == <<";", ";", ";", ";">>
ORG_ == <<"O", "R", "G", ":">>
TEL_CELL == <<"T", "E", "L", ";", "T", "Y", "P", "E", "=", "C", "E", "L", "L", ":">>
EMAIL_INTERNET == <<"E", "M", "A", "I", "L", ";", "T", "Y", "P", "E", "=",
                    "I", "N", "T", "E", "R", "N", "E", "T", ":">>
END_VCARD == <<"E", "N", "D", ":", "V", "C", "A", "R", "D">>

\* an encoder that emits the TEL line before the ORG line
buildVCardSingleTelFirst(c) ==
    LET tel == sanitizePhoneForVcard(c.phone)
        escapedName == escapeName(c.name)
        lines == <<BEGIN_VCARD, VERSION_30, FN_ \o escapedName,
                   N_ \o escapedName \o N_TAIL>>
                 \o (IF tel # <<>> THEN <<TEL_CELL \o tel>> ELSE <<>>)
                 \o (IF c.org # <<>> THEN <<ORG_ \o c.org>> ELSE <<>>)
                 \o (IF c.email # <<>> THEN <<EMAIL_INTERNET \o c.email>> ELSE <<>>)
                 \o <<END_VCARD>>
    IN  join(lines, CRLF) \o CRLF

buildVCardSingle(c) ==
    LET tel == sanitizePhoneForVcard(c.phone)
        escapedName == escapeName(c.name)
        lines == <<BEGIN_VCARD, VERSION_30, FN_ \o escapedName,
                   N_ \o escapedName \o N_TAIL>>
                 \o (IF c.org # <<>> THEN <<ORG_ \o c.org>> ELSE <<>>)
                 \o (IF tel # <<>> THEN <<TEL_CELL \o tel>> ELSE <<>>)
                 \o (IF c.email # <<>> THEN <<EMAIL_INTERNET \o c.email>> ELSE <<>>)
                 \o <<END_VCARD>>
    IN  join(lines, CRLF) \o CRLF

buildVCardMulti(contacts) ==
    join([i \in 1..Len(contacts) |-> buildVCardSingle(contacts[i])], CRLF)

-----------------------------------------------------------------------------
(* Optional values: <<>> is undefined, <<v>> is the value v *)

None == <<>>
Some(v) == <<v>>

-----------------------------------------------------------------------------
(* The contact-card branch: phone and name of a contactMessage (lines 101-103) *)

isTEL(s, i) ==
    /\ i + 2 <= Len(s)
    /\ toUpperCase(SubSeq(s, i, i + 2)) = <<"T", "E", "L">>

\* the longest run of digits of s that starts at index i
digitRun(s, i) ==
    LET stop == {j \in i..Len(s) : s[j] \notin Digits}
        last == IF stop = {} THEN Len(s) ELSE Min(stop) - 1
    IN  SubSeq(s, i, last)

\* capture group 1 of /TEL[^:]*:(\+?\d+)/i at an occurrence of TEL at index i,
\* or None: [^:]* can only end at the first colon after TEL
telMatchAt(s, i) ==
    LET colon == indexOf(s, <<":">>, i + 3)
        plus == colon # 0 /\ colon + 1 <= Len(s) /\ s[colon + 1] = "+"
        from == IF plus THEN colon + 2 ELSE colon + 1
        run == IF colon = 0 THEN <<>> ELSE digitRun(s, from)
    IN  IF run = <<>> THEN None
        ELSE Some((IF plus THEN <<"+">> ELSE <<>>) \o run)

extractPhoneFromVcard(vcardText) ==
    LET hits == {i \in 1..Len(vcardText) :
                    isTEL(vcardText, i) /\ telMatchAt(vcardText, i) # None}
    IN  IF hits = {} THEN <<>> ELSE telMatchAt(vcardText, Min(hits))[1]

\* contact.vcard?.match(/FN:(.*)/)?.[1] : the rest of the line after the first FN:
matchFN(vcard) ==
    IF vcard = None THEN None
    ELSE LET v == vcard[1]
             k == indexOf(v, FN_, 1)
             rest == slice(v, k + 2)
             stop == {j \in 1..Len(rest) : rest[j] \in {CR, LF}}
         IN  IF k = 0 THEN None
             ELSE Some(IF stop = {} THEN rest ELSE SubSeq(rest, 1, Min(stop) - 1))

\* contact.vcard ? extractPhoneFromVcard(contact.vcard) : (contact.jid || "").split("@")[0]
contactPhone(contact) ==
    IF contact.vcard # None /\ contact.vcard[1] # <<>>
    THEN extractPhoneFromVcard(contact.vcard[1])
    ELSE splitChar(IF contact.jid = None THEN <<>> ELSE contact.jid[1], "@")[1]

DefaultName == <<"c", "o", "n", "t", "a", "c", "t">>

\* contact.displayName || contact.vcard?.match(/FN:(.*)/)?.[1] || "contact"
contactName(contact) ==
    LET fn == matchFN(contact.vcard)
    IN  IF contact.displayName # None /\ contact.displayName[1] # <<>>
        THEN contact.displayName[1]
        ELSE IF fn # None /\ fn[1] # <<>> THEN fn[1]
        ELSE DefaultName

-----------------------------------------------------------------------------
(* The messages.upsert handler (lines 47-121) *)

VCF == <<"!", "v", "c", "f">>
MULTI == <<"M", "U", "L", "T", "I">>

\* a payload taken as one line, never cut at its line breaks
payloadContactsOneLine(payload) ==
    LET parsed == <<parseContactLine(trim(payload))>>
    IN  SelectSeq(parsed, LAMBDA c : c # Null)

\* lines 72-73: the records of a payload
payloadContacts(payload) ==
    LET raw == splitLines(payload)
        trimmed == [i \in 1..Len(raw) |-> trim(raw[i])]
        lines == SelectSeq(trimmed, LAMBDA l : l # <<>>)
        parsed == [i \in 1..Len(lines) |-> parseContactLine(lines[i])]
    IN  SelectSeq(parsed, LAMBDA c : c # Null)

NoFile == [path |-> None, fileName |-> <<>>, built |-> <<>>, read |-> None]

TextSend(kind, to) ==
    [kind |-> kind, to |-> to, status |-> "pending", caption |-> <<>>] @@ NoFile

\* a sendMessage call with document: fs.createReadStream(path)
FileSend(to, path, fileName, caption, built) ==
    [kind |-> "file", to |-> to, status |-> "pending", caption |-> caption,
     path |-> Some(path), fileName |-> fileName, built |-> built, read |-> None]

NewInvocation(msg) ==
    [msg |-> msg, pc |-> "done", contacts |-> <<>>, vcfText |-> <<>>,
     filePath |-> None, name |-> <<>>, phone |-> <<>>, sends |-> <<>>,
     writes |-> 0, errors |-> 0, escaped |-> FALSE]

\* line 99 on: the contact-card branch starts, or the handler returns
contactBranch(r) ==
    IF r.msg.contact = None THEN [r EXCEPT !.pc = "done"]
    ELSE LET contact == r.msg.contact[1]
             name == contactName(contact)
             phone == contactPhone(contact)
         IN  [r EXCEPT !.pc = "ensureDirCard", !.name = name, !.phone = phone,
                       !.vcfText = buildVCardSingle(
                           [name |-> name, phone |-> phone, org |-> <<>>, email |-> <<>>])]

\* a command handler without the MULTI branch of lines 64-69
commandNoMultiBranch(r, text) ==
    LET payload == trim(slice(text, 4))
        contacts == payloadContacts(payload)
        sender == r.msg.remoteJid
    IN  IF payload = <<>>
        THEN [r EXCEPT !.pc = "awaitText", !.sends = <<TextSend("usage", sender)>>]
        ELSE IF contacts = <<>>
        THEN [r EXCEPT !.pc = "awaitText", !.sends = <<TextSend("fail", sender)>>]
        ELSE [r EXCEPT !.pc = "ensureDir", !.contacts = contacts,
                       !.vcfText = buildVCardMulti(contacts)]

\* a command handler without the usage branch of lines 59-62
commandNoUsageBranch(r, text) ==
    LET payload == trim(slice(text, 4))
        contacts == payloadContacts(payload)
        sender == r.msg.remoteJid
    IN  IF toUpperCase(payload) = MULTI
        THEN [r EXCEPT !.pc = "awaitText", !.sends = <<TextSend("multi", sender)>>]
        ELSE IF contacts = <<>>
        THEN [r EXCEPT !.pc = "awaitText", !.sends = <<TextSend("fail", sender)>>]
        ELSE [r EXCEPT !.pc = "ensureDir", !.contacts = contacts,
                       !.vcfText = buildVCardMulti(contacts)]

\* lines 58-82: the "!vcf" command up to its first await
command(r, text) ==
    LET payload == trim(slice(text, 4))
        contacts == payloadContacts(payload)
        sender == r.msg.remoteJid
    IN  IF payload = <<>>
        THEN [r EXCEPT !.pc = "awaitText", !.sends = <<TextSend("usage", sender)>>]
        ELSE IF toUpperCase(payload) = MULTI
        THEN [r EXCEPT !.pc = "awaitText", !.sends = <<TextSend("multi", sender)>>]
        ELSE IF contacts = <<>>
        THEN [r EXCEPT !.pc = "awaitText", !.sends = <<TextSend("fail", sender)>>]
        ELSE [r EXCEPT !.pc = "ensureDir", !.contacts = contacts,
                       !.vcfText = buildVCardMulti(contacts)]

\* lines 49-57 and 99: the handler from its call to its first await or return
upsert(msg) ==
    LET r == NewInvocation(msg)
        text == trim(msg.text)
    IN  IF ~msg.present \/ msg.fromMe THEN r
        ELSE IF text = <<>> THEN r
        ELSE IF startsWith(text, VCF) THEN command(r, text)
        ELSE contactBranch(r)

\* a catch block that logs and throws the error again
catchRethrow(r) == [r EXCEPT !.pc = "done", !.errors = @ + 1, !.escaped = TRUE]

\* lines 118-120: console.error, and the handler's promise resolves
catch(r) == [r EXCEPT !.pc = "done", !.errors = @ + 1]

\* lines 83 and 107: path.join(tmpDir, `<kind>-${Date.now()}.vcf`)
filePath(kind) == <<kind, now>>

CONTACTS_VCF == <<"c", "o", "n", "t", "a", "c", "t", "s", ".", "v", "c", "f">>
DOT_VCF == <<".", "v", "c", "f">>

\* name.replace(/\s+/g, "_"): every run of white space becomes one underscore
RECURSIVE underscored(_)
underscored(name) ==
    IF name = <<>> THEN <<>>
    ELSE IF Head(name) \in WhiteSpace
    THEN LET rest == underscored(Tail(name))
         IN  IF Len(name) > 1 /\ name[2] \in WhiteSpace THEN rest ELSE <<"_">> \o rest
    ELSE <<Head(name)>> \o underscored(Tail(name))

fileContent(path) ==
    LET hit == {f \in files : f.path = path}
    IN  IF hit = {} THEN None ELSE Some((CHOOSE f \in hit : TRUE).content)

setLast(seq, v) == [seq EXCEPT ![Len(seq)] = v]

\* a message arrives and the handler runs to its first await or to its return
Receive(msg) ==
    /\ inv' = Append(inv, upsert(msg))
    /\ UNCHANGED <<files, timers, now, encVars, connVars>>

\* lines 60, 67, 76: the awaited text send settles; the handler returns or catches
TextSettled(i) ==
    /\ inv[i].pc = "awaitText"
    /\ \E ok \in BOOLEAN :
         LET r == inv[i]
             sent == [r EXCEPT !.sends = setLast(@, [@[Len(@)] EXCEPT
                                  !.status = IF ok THEN "ok" ELSE "failed"])]
         IN  inv' = [inv EXCEPT ![i] = IF ok THEN [sent EXCEPT !.pc = "done"]
                                       ELSE catch(sent)]
    /\ UNCHANGED <<files, timers, now, encVars, connVars>>

\* lines 82-84 and 106-108: ensureDir resolves, the path is taken from the clock
\* and writeFile is called
EnsureDir(i) ==
    /\ inv[i].pc \in {"ensureDir", "ensureDirCard"}
    /\ LET r == inv[i]
           card == r.pc = "ensureDirCard"
       IN  inv' = [inv EXCEPT ![i] =
                     [r EXCEPT !.filePath = Some(filePath(IF card THEN "contact"
                                                          ELSE "contacts")),
                               !.pc = IF card THEN "writeFileCard" ELSE "writeFile"]]
    /\ UNCHANGED <<files, timers, now, encVars, connVars>>

\* lines 84-92 and 108-114: writeFile resolves and sendMessage is called with a
\* read stream on the path
WriteFile(i) ==
    /\ inv[i].pc \in {"writeFile", "writeFileCard"}
    /\ LET r == inv[i]
           path == r.filePath[1]
           send == IF r.pc = "writeFile"
                   THEN FileSend(r.msg.remoteJid, path, CONTACTS_VCF,
                                 Some(Len(r.contacts)), r.vcfText)
                   ELSE FileSend(r.msg.remoteJid, path, underscored(r.name) \o DOT_VCF,
                                 Some(r.name), r.vcfText)
       IN  /\ files' = {f \in files : f.path # path}
                       \cup {[path |-> path, content |-> r.vcfText]}
           /\ inv' = [inv EXCEPT ![i] =
                        [r EXCEPT !.writes = @ + 1,
                                  !.sends = Append(@, send),
                                  !.pc = IF r.pc = "writeFile" THEN "sendFile"
                                         ELSE "sendFileCard"]]
    /\ UNCHANGED <<timers, now, encVars, connVars>>

\* lines 87-96 and 109-116: the stream is read and the awaited file send settles;
\* on success the cleanup timer is set and the handler goes on
FileSettled(i) ==
    /\ inv[i].pc \in {"sendFile", "sendFileCard"}
    /\ \E ok \in BOOLEAN :
         LET r == inv[i]
             path == r.filePath[1]
             content == fileContent(path)
             good == ok /\ content # None
             sent == [r EXCEPT !.sends = setLast(@, [@[Len(@)] EXCEPT
                                  !.status = IF good THEN "ok" ELSE "failed",
                                  !.read = content])]
         IN  /\ inv' = [inv EXCEPT ![i] =
                          IF ~good THEN catch(sent)
                          ELSE IF r.pc = "sendFile" THEN contactBranch(sent)
                          ELSE [sent EXCEPT !.pc = "done"]]
             /\ timers' = IF good THEN timers \cup {[owner |-> i, path |-> path]}
                          ELSE timers
    /\ UNCHANGED <<files, now, encVars, connVars>>

\* lines 95 and 115: a cleanup timer fires, fs.remove(filePath)
Cleanup ==
    /\ \E t \in timers :
         /\ timers' = timers \ {t}
         /\ files' = {f \in files : f.path # t.path}
    /\ UNCHANGED <<inv, now, encVars, connVars>>

\* Only whether two invocations read the same time matters, so as many clock
\* values as there are invocations cover every case.
MaxNow == MaxInFlight - 1

\* the clock of Date.now() advances
Tick ==
    /\ now < MaxNow
    /\ now' = now + 1
    /\ UNCHANGED <<inv, files, timers, encVars, connVars>>

-----------------------------------------------------------------------------
(* Inbound messages *)

SeqsUpTo(S, n) == UNION {[1..k -> S] : k \in 0..n}

InitHandlerIdle == inv = <<>> /\ files = {} /\ timers = {} /\ now = 0
InitEncIdle ==
    /\ encPc = "idle" /\ encLine = <<>> /\ encRec = Null
    /\ encOut = <<>> /\ encFields = <<>>
InitConnIdle ==
    /\ socks = <<>> /\ starting = 0 /\ starts = 0 /\ closes = <<>>
    /\ process = "running"

Sender == <<"u">>

\* a message whose text is pre followed by the lines joined with LF; pre and
\* lines are kept beside the text as the history of how the text was written
Msg(fromMe, pre, lines, contact) ==
    [present |-> TRUE, fromMe |-> fromMe, remoteJid |-> Sender,
     text |-> pre \o join(lines, <<LF>>), pre |-> pre, lines |-> lines,
     contact |-> contact]

\* m.messages[0] is undefined
NoMsg ==
    [present |-> FALSE, fromMe |-> FALSE, remoteJid |-> Sender,
     text |-> <<>>, pre |-> <<>>, lines |-> <<>>, contact |-> None]

Prefixes == {VCF \o <<" ">>, <<" ">> \o VCF}

LineMulti == <<"M", "u", "l", "t", "i">>
LineBad == <<"b", CR>>
LineShort == <<"a", "|", "1">>
LineFull == <<" ", "c", ",", " ", "|", " ", "+", "2", " ", "|", "o", "|", "e">>
LinePipe == <<"|">>

LineSet == {<<>>, LineMulti, LineBad, LineShort, LinePipe, LineFull}

VcardOpts ==
    {None, Some(<<>>),
     Some(<<"F", "N", ":", "n", LF, "T", "E", "L", ":", "+", "1", "2", LF>>),
     Some(<<"F", "N", ":", "n", CR, LF, "E", "N", "D">>),
     Some(<<"t", "e", "l", ";", "x", ":", "y", LF, "T", "E", "L", ":", "9">>),
     Some(<<"T", "E", "L", ":", "+">>)}

JidOpts == {None, Some(<<>>), Some(<<"3", "4", "@", "s">>)}

Cards == [displayName : {None, Some(<<"d", " ", " ", "e">>)},
          vcard : VcardOpts, jid : JidOpts]

Card1 == [displayName |-> Some(<<"d", " ", " ", "e">>), vcard |-> None,
          jid |-> Some(<<"3", "4", "@", "s">>)]

FewLines == {<<>>, <<LineBad>>, <<LineShort>>, <<LineMulti>>}

\* every text of up to MaxLines lines after the prefix, with and without a
\* card; every card under a text that is no command and under a command that
\* succeeds; the bot's own messages; texts that are no command; no message
Messages ==
    {Msg(FALSE, p, ls, c) : p \in Prefixes, ls \in SeqsUpTo(LineSet, MaxLines),
                            c \in {None, Some(Card1)}}
    \cup {Msg(FALSE, p, ls, Some(k)) : p \in {<<>>, VCF \o <<" ">>}, ls \in {<<LineShort>>},
                                      k \in Cards}
    \cup {Msg(f, p, ls, c) : f \in BOOLEAN, p \in Prefixes \cup {<<>>}, ls \in FewLines,
                             c \in {None, Some(Card1)}}
    \cup {NoMsg}

\* the messages of the concurrent specification
ConcMessages ==
    {Msg(FALSE, VCF \o <<" ">>, <<>>, None),
     Msg(FALSE, VCF \o <<" ">>, <<LinePipe>>, None),
     Msg(FALSE, VCF \o <<" ">>, <<LineShort>>, None),
     Msg(FALSE, <<>>, <<LineBad>>, Some(Card1))}

-----------------------------------------------------------------------------
(* One message at a time, any message. With one invocation the value of    *)
(* the clock is of no consequence, and it stands still.                     *)

Init == InitHandlerIdle /\ InitEncIdle /\ InitConnIdle

ReceiveOne == inv = <<>> /\ \E msg \in Messages : Receive(msg)

Next ==
    \/ ReceiveOne
    \/ \E i \in 1..Len(inv) : TextSettled(i)
    \/ \E i \in 1..Len(inv) : EnsureDir(i)
    \/ \E i \in 1..Len(inv) : WriteFile(i)
    \/ \E i \in 1..Len(inv) : FileSettled(i)
    \/ Cleanup

Spec == Init /\ [][Next]_vars

(* Messages handled concurrently *)

ReceiveConc == Len(inv) < MaxInFlight /\ \E msg \in ConcMessages : Receive(msg)

NextConc ==
    \/ ReceiveConc
    \/ \E i \in 1..Len(inv) : TextSettled(i)
    \/ \E i \in 1..Len(inv) : EnsureDir(i)
    \/ \E i \in 1..Len(inv) : WriteFile(i)
    \/ \E i \in 1..Len(inv) : FileSettled(i)
    \/ Cleanup
    \/ Tick

SpecConc == Init /\ [][NextConc]_vars

-----------------------------------------------------------------------------
(* Reading a rendered vCard back *)

\* s cut at every CRLF
splitCRLF(s) == cutAt(s, {i \in 1..(Len(s) - 1) : s[i] = CR /\ s[i + 1] = LF}, 2)

\* the value of the first line of out that starts with prefix, or the empty string
ExtractField(out, prefix) ==
    LET ls == splitCRLF(out)
        hits == {i \in 1..Len(ls) : startsWith(ls[i], prefix)}
    IN  IF hits = {} THEN <<>> ELSE slice(ls[Min(hits)], Len(prefix))

CommasEscaped(name) == join(splitChar(name, ","), <<"\\", ",">>)
DigitsAndPlus(phone) == SelectSeq(phone, LAMBDA ch : ch \in Digits \cup {"+"})
FieldAt(fs, i) == IF i <= Len(fs) THEN fs[i] ELSE <<>>

-----------------------------------------------------------------------------
(* Properties of the handler *)

HasPipe(l) == \E k \in 1..Len(l) : l[k] = "|"
NonBlank(l) == \E k \in 1..Len(l) : l[k] \notin WhiteSpace

\* the invocation handles a message that is there and not the bot's own
Inbound(r) == r.msg.present /\ ~r.msg.fromMe
\* its text, trimmed, starts with "!vcf"; the lines of the remainder are r.msg.lines
IsCommand(r) == r.msg.pre \in Prefixes
ValidLines(r) == SelectSeq(r.msg.lines, HasPipe)

TextSends(r) == SelectSeq(r.sends, LAMBDA s : s.kind # "file")
FileSends(r) == SelectSeq(r.sends, LAMBDA s : s.kind = "file")
CommandFiles(r) == SelectSeq(r.sends, LAMBDA s : s.kind = "file" /\ s.path[1][1] = "contacts")
CardFiles(r) == SelectSeq(r.sends, LAMBDA s : s.kind = "file" /\ s.path[1][1] = "contact")
FailedSends(r) == SelectSeq(r.sends, LAMBDA s : s.status = "failed")

\* the lines of a vCard text that are exactly the line l / that start with p
LinesEqual(text, l) == SelectSeq(splitCRLF(text), LAMBDA x : x = l)
LinesWith(text, p) == SelectSeq(splitCRLF(text), LAMBDA x : startsWith(x, p))

\* the FN line expected for a line with a pipe: its first field, trimmed
ExpectedFN(l) ==
    LET first == SubSeq(l, 1, Min({k \in 1..Len(l) : l[k] = "|"}) - 1)
    IN  FN_ \o CommasEscaped(orElse(trim(first), Unknown))

\* what C1 says of the command's own delivery, the file it sends for the lines
CommandDeliveryOf(r) ==
    LET cf == CommandFiles(r)
        K == Len(ValidLines(r))
        ls == splitCRLF(cf[1].built)
    IN  /\ Len(cf) = 1
        /\ TextSends(r) = <<>>
        /\ cf[1].to = r.msg.remoteJid
        /\ cf[1].caption = Some(K)
        /\ cf[1].read = Some(cf[1].built)
        /\ Len(SelectSeq(ls, LAMBDA x : x = BEGIN_VCARD)) = K
        /\ Len(SelectSeq(ls, LAMBDA x : x = END_VCARD)) = K
        /\ SelectSeq(ls, LAMBDA x : startsWith(x, FN_))
             = [k \in 1..K |-> ExpectedFN(ValidLines(r)[k])]
        /\ r.errors = Len(FailedSends(r))
        /\ ~r.escaped

C1Case(r) == r.pc = "done" /\ Inbound(r) /\ IsCommand(r) /\ Len(ValidLines(r)) >= 1

(* C1 as amended: for an inbound "!vcf" text with at least one line of two  *)
(* or more pipe-delimited fields, the handler sends exactly one file for    *)
(* the command and no usage, instruction or failure text; the file holds    *)
(* one BEGIN:VCARD..END:VCARD block per such line, in line order, and its   *)
(* caption counts them; the other lines (a leading "multi" among them) give *)
(* no record and no error. A message that also carries a contact card gets  *)
(* a second, single-record file once the first delivery has succeeded.      *)
CommandDelivery ==
    \A i \in 1..Len(inv) :
        C1Case(inv[i]) =>
            /\ CommandDeliveryOf(inv[i])
            /\ Len(CardFiles(inv[i]))
                 = IF inv[i].msg.contact # None /\ CommandFiles(inv[i])[1].status = "ok"
                   THEN 1 ELSE 0

\* "!vcf Multi", a bad line and two valid lines have been answered with a file
CommandDeliveryWitness ==
    \E i \in 1..Len(inv) :
        /\ C1Case(inv[i])
        /\ inv[i].msg.lines[1] = LineMulti
        /\ Len(ValidLines(inv[i])) = 2
        /\ ValidLines(inv[i])[1] # ValidLines(inv[i])[2]
        /\ CommandFiles(inv[i])[1].status = "ok"

\* the same, answered with a second file for the contact card of the message
CommandDeliveryCardWitness ==
    \E i \in 1..Len(inv) :
        /\ C1Case(inv[i])
        /\ inv[i].msg.contact # None
        /\ Len(FileSends(inv[i])) = 2

(* C1 as stated: the handler sends exactly one file delivery, the one of    *)
(* the command.                                                             *)
CommandDeliveryOnlyOne ==
    \A i \in 1..Len(inv) :
        C1Case(inv[i]) =>
            /\ CommandDeliveryOf(inv[i])
            /\ Len(FileSends(inv[i])) = 1

C2Case(r) ==
    /\ r.pc = "done" /\ Inbound(r) /\ IsCommand(r)
    /\ \E k \in 1..Len(r.msg.lines) : NonBlank(r.msg.lines[k])
    /\ ValidLines(r) = <<>>

\* the remainder is the "multi" marker and nothing else
OnlyMulti(r) ==
    LET nb == SelectSeq(r.msg.lines, NonBlank)
    IN  Len(nb) = 1 /\ toUpperCase(trim(nb[1])) = MULTI

NoFileOf(r) == r.writes = 0 /\ FileSends(r) = <<>> /\ r.filePath = None

(* C2 as amended: for an inbound "!vcf" text whose remainder is not blank   *)
(* and has no line of two or more fields, the handler sends one text and    *)
(* nothing else, writes no file and lets no exception out: the parse        *)
(* failure text, unless the remainder is only the "multi" marker, which is  *)
(* answered with the multi instructions.                                    *)
ParseFailureReply ==
    \A i \in 1..Len(inv) :
        C2Case(inv[i]) =>
            /\ Len(inv[i].sends) = 1
            /\ inv[i].sends[1].kind = IF OnlyMulti(inv[i]) THEN "multi" ELSE "fail"
            /\ inv[i].sends[1].to = inv[i].msg.remoteJid
            /\ NoFileOf(inv[i])
            /\ ~inv[i].escaped

\* a marker line followed by a bad line has been answered with the failure text
ParseFailureWitness ==
    \E i \in 1..Len(inv) :
        /\ C2Case(inv[i])
        /\ inv[i].msg.lines = <<LineMulti, LineBad>>
        /\ inv[i].sends[1].status = "ok"

\* the marker alone has been answered
ParseFailureMultiWitness ==
    \E i \in 1..Len(inv) : C2Case(inv[i]) /\ OnlyMulti(inv[i])

(* C2 as stated: the parse failure text is sent in every such case, the     *)
(* remainder that is only the "multi" marker included.                      *)
ParseFailureAlways ==
    \A i \in 1..Len(inv) :
        C2Case(inv[i]) =>
            /\ Len(inv[i].sends) = 1
            /\ inv[i].sends[1].kind = "fail"
            /\ NoFileOf(inv[i])
            /\ ~inv[i].escaped

C3Case(r) ==
    /\ r.pc = "done" /\ Inbound(r) /\ IsCommand(r)
    /\ \A k \in 1..Len(r.msg.lines) : ~NonBlank(r.msg.lines[k])

(* C3: for an inbound text that is "!vcf" alone or followed only by white   *)
(* space, the handler sends exactly one usage text to the sender, makes no  *)
(* record and writes and sends no file.                                     *)
UsageReply ==
    \A i \in 1..Len(inv) :
        C3Case(inv[i]) =>
            /\ Len(inv[i].sends) = 1
            /\ inv[i].sends[1].kind = "usage"
            /\ inv[i].sends[1].to = inv[i].msg.remoteJid
            /\ inv[i].contacts = <<>>
            /\ NoFileOf(inv[i])

\* "!vcf" followed by empty lines, in a message that carries a contact card,
\* has been answered
UsageReplyWitness ==
    \E i \in 1..Len(inv) :
        /\ C3Case(inv[i])
        /\ Len(inv[i].msg.lines) >= 2
        /\ inv[i].msg.contact # None
        /\ inv[i].sends[1].status = "ok"

(* C4: every inbound message that carries a contact card gets, when no send *)
(* fails, exactly one single-record file with the card's name and phone and *)
(* no organization or e-mail, whatever its text is.                         *)
CardAlwaysDelivered ==
    \A i \in 1..Len(inv) :
        (/\ inv[i].pc = "done" /\ Inbound(inv[i])
         /\ inv[i].msg.contact # None /\ FailedSends(inv[i]) = <<>>) =>
            /\ Len(CardFiles(inv[i])) = 1
            /\ Len(LinesEqual(CardFiles(inv[i])[1].built, BEGIN_VCARD)) = 1
            /\ LinesWith(CardFiles(inv[i])[1].built, ORG_) = <<>>
            /\ LinesWith(CardFiles(inv[i])[1].built, EMAIL_INTERNET) = <<>>

\* the part of the identifier before the "@"
JidLocalPart(contact) ==
    LET jid == IF contact.jid = None THEN <<>> ELSE contact.jid[1]
        at == {k \in 1..Len(jid) : jid[k] = "@"}
    IN  IF at = {} THEN jid ELSE SubSeq(jid, 1, Min(at) - 1)

(* C5: the phone of a contact card is the number of the matching TEL line   *)
(* of its vCard text when there is one, and otherwise (no vCard text, or no *)
(* matching TEL line) the part of its identifier before the "@".            *)
PhoneFallbackChain ==
    \A i \in 1..Len(inv) :
        (inv[i].msg.contact # None /\ CardFiles(inv[i]) # <<>>) =>
            LET contact == inv[i].msg.contact[1]
                tel == IF contact.vcard = None THEN <<>>
                       ELSE extractPhoneFromVcard(contact.vcard[1])
            IN  inv[i].phone = IF tel # <<>> THEN tel ELSE JidLocalPart(contact)

InFlightWithPath(r) == r.pc # "done" /\ r.filePath # None

(* C6: at any time the invocations in flight hold different file paths, and *)
(* the content a send streams is the vCard text its own invocation built.   *)
OwnFileDelivered ==
    /\ \A i, j \in 1..Len(inv) :
         (i # j /\ InFlightWithPath(inv[i]) /\ InFlightWithPath(inv[j]))
             => inv[i].filePath # inv[j].filePath
    /\ \A i \in 1..Len(inv) : \A k \in 1..Len(inv[i].sends) :
         (inv[i].sends[k].kind = "file" /\ inv[i].sends[k].status = "ok")
             => inv[i].sends[k].read = Some(inv[i].sends[k].built)

\* a send of invocation i has failed and the handler has gone through its catch
FailedAt(r) == FailedSends(r) # <<>>

SendFailureState ==
    \A i \in 1..Len(inv) : \A k \in 1..Len(inv[i].sends) :
        inv[i].sends[k].status = "failed" =>
            /\ k = Len(inv[i].sends)
            /\ inv[i].pc = "done"
            /\ inv[i].errors = 1
            /\ ~inv[i].escaped

\* the step in which a send of invocation i fails changes nothing but i
SendFailureStep ==
    \A i \in 1..Len(inv) :
        (~FailedAt(inv[i]) /\ FailedAt(inv'[i])) =>
            /\ Len(inv') = Len(inv)
            /\ \A j \in 1..Len(inv) : j # i => inv'[j] = inv[j]
            /\ Len(inv'[i].sends) = Len(inv[i].sends)
            /\ UNCHANGED <<files, timers, now>>

\* an invocation that has not ended can always take its next step
NeverBlocked ==
    \A j \in 1..Len(inv) :
        inv[j].pc # "done" =>
            ENABLED (TextSettled(j) \/ EnsureDir(j) \/ WriteFile(j) \/ FileSettled(j))

(* C10: when a send fails, the handler sends nothing more for that message  *)
(* (the failed send stays its last one, so it is not retried), logs the     *)
(* error once and ends without an exception leaving it; the failing step    *)
(* touches no other invocation, file or timer, and every other invocation   *)
(* can still go on.                                                         *)
SendFailureContained ==
    /\ [](SendFailureState /\ NeverBlocked)
    /\ [][SendFailureStep]_vars

\* a file send has failed, and a message that arrived later has been answered
\* with its own file
SendFailureWitness ==
    \E i, j \in 1..Len(inv) :
        /\ i < j
        /\ FailedAt(inv[i])
        /\ FileSends(inv[i]) # <<>>
        /\ inv[j].pc = "done"
        /\ CommandFiles(inv[j]) # <<>>
        /\ CommandFiles(inv[j])[1].status = "ok"
        /\ CommandFiles(inv[j])[1].read = Some(CommandFiles(inv[j])[1].built)

-----------------------------------------------------------------------------
(* The parse/encode pipeline run on one line (lines 73 and 158 of the      *)
(* handler apply parseContactLine and buildVCardSingle to each line).      *)

NameFields == SeqsUpTo({"a", ",", " "}, MaxFieldLen)
PhoneFields == SeqsUpTo({"1", "+", " ", "-"}, MaxFieldLen)
OrgFields == {<<>>, <<"o">>, <<" ", "o">>}
EmailFields == {<<>>, <<"e">>, <<"e", " ">>}
ExtraFields == {<<"x">>}

\* a line of one to five fields: "N", "N|P", "N|P|O", "N|P|O|E", "N|P|O|E|X"
InitEnc ==
    /\ \E n \in NameFields, p \in PhoneFields, o \in OrgFields, e \in EmailFields,
          x \in ExtraFields, count \in 1..5 :
            encFields = SubSeq(<<n, p, o, e, x>>, 1, count)
    /\ encLine = join(encFields, <<"|">>)
    /\ encPc = "line"
    /\ encRec = Null
    /\ encOut = <<>>
    /\ InitHandlerIdle
    /\ InitConnIdle

Parse ==
    /\ encPc = "line"
    /\ encRec' = parseContactLine(encLine)
    /\ encPc' = IF encRec' = Null THEN "dropped" ELSE "parsed"
    /\ UNCHANGED <<encLine, encOut, encFields, handlerVars, connVars>>

Build ==
    /\ encPc = "parsed"
    /\ encOut' = buildVCardSingle(encRec)
    /\ encPc' = "built"
    /\ UNCHANGED <<encLine, encRec, encFields, handlerVars, connVars>>

NextEnc == Parse \/ Build

SpecEnc == InitEnc /\ [][NextEnc]_vars

(* C7: the text buildVCardSingle returns for a record is, cut at CRLF, the  *)
(* lines BEGIN:VCARD, VERSION:3.0, FN:<name, commas escaped>, N:<the same   *)
(* name>;;;;, then ORG:<org> only if org is non-empty, then TEL;TYPE=CELL:  *)
(* <digits and '+' of phone, in order> only if that is non-empty, then      *)
(* EMAIL;TYPE=INTERNET:<email> only if email is non-empty, then END:VCARD,  *)
(* each terminated by CRLF, and nothing else.                               *)
VCardLayout ==
    encPc = "built" =>
        LET tel == DigitsAndPlus(encRec.phone)
            esc == CommasEscaped(encRec.name)
            expected ==
                <<BEGIN_VCARD, VERSION_30, FN_ \o esc, N_ \o esc \o N_TAIL>>
                \o (IF encRec.org = <<>> THEN <<>> ELSE <<ORG_ \o encRec.org>>)
                \o (IF tel = <<>> THEN <<>> ELSE <<TEL_CELL \o tel>>)
                \o (IF encRec.email = <<>> THEN <<>> ELSE <<EMAIL_INTERNET \o encRec.email>>)
                \o <<END_VCARD, <<>> >>
        IN  splitCRLF(encOut) = expected

\* a record with a comma in its name, an organization, a phone that keeps a
\* digit and loses a character, and an e-mail has been encoded
VCardLayoutWitness ==
    /\ encPc = "built"
    /\ \E i \in 1..Len(encRec.name) : encRec.name[i] = ","
    /\ encRec.org # <<>>
    /\ encRec.email # <<>>
    /\ DigitsAndPlus(encRec.phone) # <<>>
    /\ DigitsAndPlus(encRec.phone) # encRec.phone

\* a record whose phone has no digit and no '+' has been encoded without TEL line
VCardLayoutNoTelWitness ==
    /\ encPc = "built"
    /\ encRec.phone # <<>>
    /\ DigitsAndPlus(encRec.phone) = <<>>
    /\ ExtractField(encOut, TEL_CELL) = <<>>

(* C8 as amended: for every line of two or more fields N|P|O|E, the FN, TEL, *)
(* ORG and EMAIL values read back from the rendered vCard are: N trimmed     *)
(* ("Unknown" when that is empty) with commas escaped, the digits and '+' of *)
(* P, and O and E trimmed.                                                   *)
RoundTripTrimmed ==
    (encPc = "built" /\ Len(encFields) >= 2) =>
        /\ ExtractField(encOut, FN_)
             = CommasEscaped(orElse(trim(FieldAt(encFields, 1)), Unknown))
        /\ ExtractField(encOut, TEL_CELL) = DigitsAndPlus(FieldAt(encFields, 2))
        /\ ExtractField(encOut, ORG_) = trim(FieldAt(encFields, 3))
        /\ ExtractField(encOut, EMAIL_INTERNET) = trim(FieldAt(encFields, 4))

\* a line with four non-empty fields, one of them padded, has gone round
RoundTripWitness ==
    /\ encPc = "built"
    /\ Len(encFields) = 4
    /\ \A i \in 1..4 : trim(encFields[i]) # <<>>
    /\ \E i \in 1..4 : trim(encFields[i]) # encFields[i]

(* C8 as stated: the values read back are N with commas escaped, the        *)
(* sanitized P, and O and E unchanged.                                      *)
RoundTripUnchanged ==
    (encPc = "built" /\ Len(encFields) >= 2) =>
        /\ ExtractField(encOut, FN_) = CommasEscaped(FieldAt(encFields, 1))
        /\ ExtractField(encOut, TEL_CELL) = DigitsAndPlus(FieldAt(encFields, 2))
        /\ ExtractField(encOut, ORG_) = FieldAt(encFields, 3)
        /\ ExtractField(encOut, EMAIL_INTERNET) = FieldAt(encFields, 4)

-----------------------------------------------------------------------------
(* start() and the connection.update handler (lines 22-45 and 167-170).     *)
(* The transport is the library's: a socket is "connecting", then possibly  *)
(* "open", and reports 'close' once, when it ends; a socket that has ended  *)
(* reports nothing more.                                                    *)

\* lastDisconnect?.error?.output?.statusCode: DisconnectReason values, or undefined
StatusCodes == {"loggedOut", "connectionClosed", "timedOut", "undefined"}

\* a handler that restarts whatever the status code is
shouldRestartAlways(code) == TRUE

\* line 41: code !== DisconnectReason.loggedOut
shouldRestart(code) == code # "loggedOut"

Live(k) == socks[k] \in {"connecting", "open"}

\* line 167: the module calls start()
InitConn ==
    /\ socks = <<>>
    /\ starting = 1
    /\ starts = 1
    /\ closes = <<>>
    /\ process = "running"
    /\ InitHandlerIdle
    /\ InitEncIdle

\* lines 23-45: the awaits of start() resolve, makeWASocket makes the socket
\* and the handlers are registered on it
MakeSocket ==
    /\ process = "running"
    /\ starting > 0
    /\ Len(socks) < MaxSocks
    /\ socks' = Append(socks, "connecting")
    /\ starting' = starting - 1
    /\ UNCHANGED <<starts, closes, process, handlerVars, encVars>>

\* start() rejects (useMultiFileAuthState fails): the first call ends the
\* process (lines 167-170), a restart only logs (line 41)
StartFails ==
    /\ process = "running"
    /\ starting > 0
    /\ starting' = starting - 1
    /\ process' = IF starts = 1 THEN "exited" ELSE process
    /\ UNCHANGED <<socks, starts, closes, handlerVars, encVars>>

\* lines 42-44: connection === 'open'
Open(k) ==
    /\ process = "running"
    /\ socks[k] = "connecting"
    /\ socks' = [socks EXCEPT ![k] = "open"]
    /\ UNCHANGED <<starting, starts, closes, process, handlerVars, encVars>>

\* lines 37-41: connection === 'close' with a status code
Close(k, code) ==
    /\ process = "running"
    /\ Live(k)
    /\ socks' = [socks EXCEPT ![k] = "closed"]
    /\ closes' = Append(closes, [sock |-> k, code |-> code])
    /\ IF shouldRestart(code)
       THEN starts' = starts + 1 /\ starting' = starting + 1
       ELSE UNCHANGED <<starts, starting>>
    /\ UNCHANGED <<process, handlerVars, encVars>>

NextConn ==
    \/ MakeSocket
    \/ StartFails
    \/ \E k \in 1..Len(socks) : Open(k)
    \/ \E k \in 1..Len(socks), code \in StatusCodes : Close(k, code)

SpecConn == InitConn /\ [][NextConn]_vars

Restarting(c) == c.code # "loggedOut"
LoggedOutSeen == \E k \in 1..Len(closes) : closes[k].code = "loggedOut"

RestartCount ==
    /\ starts = 1 + Len(SelectSeq(closes, Restarting))
    /\ Cardinality({k \in 1..Len(socks) : Live(k)}) + starting <= 1

RestartStep ==
    /\ \A k \in 1..Len(socks) : \A code \in StatusCodes :
         (Live(k) /\ closes' = Append(closes, [sock |-> k, code |-> code])) =>
             starts' = IF code = "loggedOut" THEN starts ELSE starts + 1
    /\ LoggedOutSeen => starts' = starts /\ Len(socks') = Len(socks)

====
